---- MODULE Spec2Model ----
(***************************************************************************)
(* Model of gpx-to-csv.py: the per-point fold of parseGPX and the geometry *)
(* functions calcMiles, calcSpeed and calcGrade.                           *)
(*                                                                         *)
(* Number representation.  The program computes with Python floats; the    *)
(* model computes with fixed-point integers that carry Scale units per     *)
(* unit of the float (degrees, feet, miles, mph, percent), truncating      *)
(* toward zero where the float division rounds.  Timestamps are counted in *)
(* tenths of a second, so that a timedelta has whole seconds and a         *)
(* microseconds part that is a multiple of 100000.                         *)
(***************************************************************************)
EXTENDS Integers, Sequences, FiniteSets, TLC

VARIABLES points, smoothing_sums, trkpts, status, exc

vars == <<points, smoothing_sums, trkpts, status, exc>>

(* ------------------------------ bounds --------------------------------- *)

\* Fixed-point units per unit of a float value.
Scale == 10000

\* Longest track read under Spec.
MaxPoints == 7

\* Longest track read under SpecPair.
MaxPairPoints == 2

(* ------------------------- program constants --------------------------- *)

\* 362776.87 ft per degree, in hundredths of a foot.
FT_PER_DEG_LAT == 36277687

\* 365165.34 ft per degree, in hundredths of a foot.
FT_PER_DEG_LONG == 36516534

FT_PER_MILE == 5280

SMOOTHING_WINDOW_WIDTH == 5

\* 0.1 * FT_PER_MILE
MAX_DISTANCE_STEP_SIZE == FT_PER_MILE \div 10

MAX_SPEED_STEP_SIZE == 10

MAX_GRADE_STEP_SIZE == 40

(* --------------------------- float helpers ----------------------------- *)

\* a / b for b > 0, truncated toward zero.
TruncDiv(a, b) == IF a >= 0 THEN a \div b ELSE -((-a) \div b)

Abs(x) == IF x < 0 THEN -x ELSE x

\* A function call that returned v, and one that raised exception e.
Ret(v) == [exc |-> "none", val |-> v]

Raise(e) == [exc |-> e, val |-> 0]

RECURSIVE SqrtSearch(_, _, _)
\* Largest r with lo <= r < hi and r * r <= n, given lo * lo <= n < hi * hi.
SqrtSearch(n, lo, hi) ==
    IF hi - lo <= 1 THEN lo
    ELSE LET mid == (lo + hi) \div 2
         IN  IF mid * mid <= n THEN SqrtSearch(n, mid, hi)
             ELSE SqrtSearch(n, lo, mid)

\* Sqrt with the sign of a negative argument carried through the root.
Sqrt_signed(n) ==
    IF n < 0 THEN Ret(-SqrtSearch(-n, 0, 46341)) ELSE Ret(SqrtSearch(n, 0, 46341))

\* math.sqrt: raises ValueError on a negative argument.
Sqrt(n) == IF n < 0 THEN Raise("ValueError") ELSE Ret(SqrtSearch(n, 0, 46341))

\* The normal form of a datetime.timedelta of d tenths of a second.
TimeDelta(d) ==
    [days         |-> d \div 864000,
     seconds      |-> (d % 864000) \div 10,
     microseconds |-> (d % 10) * 100000]

(* ------------------------------ geometry ------------------------------- *)

AllDimensions == {"lat", "lon", "ele"}

\* Feet spanned by a latitude or longitude difference of d / Scale degrees.
LatFeet(d) == TruncDiv(d * FT_PER_DEG_LAT, 100 * Scale)

LonFeet(d) == TruncDiv(d * FT_PER_DEG_LONG, 100 * Scale)

calcMiles(point_1, point_2, dimensions) ==
    LET lat == LatFeet(point_2.Latitude - point_1.Latitude)
        lon == LonFeet(point_2.Longitude - point_1.Longitude)
        ele == TruncDiv(point_2.Elevation - point_1.Elevation, Scale)
        quotient == (IF "lat" \in dimensions THEN lat * lat ELSE 0)
                  + (IF "lon" \in dimensions THEN lon * lon ELSE 0)
                  + (IF "ele" \in dimensions THEN ele ELSE 0)
        root == Sqrt(quotient)
    IN  IF root.exc # "none" THEN root
        ELSE Ret(TruncDiv(root.val * Scale, FT_PER_MILE))

\* hours * 3600 as calcSpeed computes it.
calcHours(t_delta) == t_delta.seconds + t_delta.microseconds \div 100000

\* calcSpeed with a zero elapsed time answered by speed 0.
calcSpeed_guarded(point_1, point_2) ==
    LET miles == calcMiles(point_1, point_2, AllDimensions)
        t_delta == TimeDelta(point_2.Timestamp - point_1.Timestamp)
        hours == calcHours(t_delta)
    IN  IF miles.exc # "none" THEN miles
        ELSE IF hours = 0 THEN Ret(0)
        ELSE Ret(TruncDiv(miles.val * 3600, hours))

calcSpeed(point_1, point_2) ==
    LET miles == calcMiles(point_1, point_2, AllDimensions)
        t_delta == TimeDelta(point_2.Timestamp - point_1.Timestamp)
        hours == calcHours(t_delta)
    IN  IF miles.exc # "none" THEN miles
        ELSE IF hours = 0 THEN Raise("ZeroDivisionError")
        ELSE Ret(TruncDiv(miles.val * 3600, hours))

calcGrade(point_1, point_2) ==
    LET rise_miles == TruncDiv(point_2.Elevation - point_1.Elevation, FT_PER_MILE)
        dist_miles == calcMiles(point_1, point_2, {"lat", "lon"})
    IN  IF dist_miles.val # 0
        THEN Ret(TruncDiv(rise_miles * 100 * Scale, dist_miles.val))
        ELSE Ret(0)

(* ------------------------------ the fold ------------------------------- *)

\* The metrics that get a rolling-window mean (the keys of smoothing_sums).
SmoothingKeys == {"Speed", "Grade", "Elevation"}

SmoothedKey(key) == key \o " (Smoothed)"

\* The dict built from a trkpt element.
RawPoint(lat, lon, ele, t) ==
    [Timestamp |-> t, Latitude |-> lat, Longitude |-> lon, Elevation |-> ele]

Last(s) == s[Len(s)]

\* Python's s[-k].
FromEnd(s, k) == s[Len(s) - k + 1]

\* ClampSpeed without the step test.
ClampSpeed_noClamp(speed, prev_speed) == speed

\* ClampSpeed with the grade's step size.
ClampSpeed_gradeStep(speed, prev_speed) ==
    IF Abs(speed - prev_speed) < MAX_GRADE_STEP_SIZE * Scale THEN speed ELSE prev_speed

ClampSpeed(speed, prev_speed) ==
    IF Abs(speed - prev_speed) < MAX_SPEED_STEP_SIZE * Scale THEN speed ELSE prev_speed

ClampGrade(grade, prev_grade) ==
    IF Abs(grade - prev_grade) < MAX_GRADE_STEP_SIZE * Scale THEN grade ELSE prev_grade

\* The new cumulative distance.  The fallback multiplies a speed by a timedelta
\* and adds the resulting timedelta to a number, which raises TypeError.  The
\* step size is 528 miles, so the fallback takes a step longer than any of
\* TrackSteps or PairSteps (whose squares fit the integers of the checker).
NextDistance(prev, distance_since_last) ==
    IF distance_since_last < MAX_DISTANCE_STEP_SIZE * Scale
    THEN Ret(prev.Distance + distance_since_last)
    ELSE Raise("TypeError")

\* FirstMetrics with the speed started at a sentinel.
FirstMetrics_sentinel == [Distance |-> 0, Speed |-> -1, Grade |-> 0]

\* Distance, Speed and Grade of the first point of a track.
FirstMetrics == [Distance |-> 0, Speed |-> 0, Grade |-> 0]

\* Distance, Speed and Grade of curr_point, or the exception raised on the way.
Metrics(pts, curr_point) ==
    IF Len(pts) > 0
    THEN LET prev == Last(pts)
             distance_since_last == calcMiles(prev, curr_point, AllDimensions)
             speed == calcSpeed(prev, curr_point)
             grade == calcGrade(prev, curr_point)
             distance == NextDistance(prev, distance_since_last.val)
         IN  IF distance_since_last.exc # "none" THEN distance_since_last
             ELSE IF speed.exc # "none" THEN speed
             ELSE IF distance.exc # "none" THEN distance
             ELSE Ret([Distance |-> distance.val,
                       Speed    |-> ClampSpeed(speed.val, prev.Speed),
                       Grade    |-> ClampGrade(grade.val, prev.Grade)])
    ELSE Ret(FirstMetrics)

\* Leaving, one point late.
Leaving_offByOne(pts, key) == FromEnd(pts, SMOOTHING_WINDOW_WIDTH - 1)[key]

\* The value that leaves the window when curr_point enters it.
Leaving(pts, key) == FromEnd(pts, SMOOTHING_WINDOW_WIDTH)[key]

\* smoothing_sums after curr_point is folded in.
NextSums(pts, sums, curr_point) ==
    IF Len(pts) >= SMOOTHING_WINDOW_WIDTH
    THEN [key \in SmoothingKeys |-> sums[key] - Leaving(pts, key) + curr_point[key]]
    ELSE [key \in SmoothingKeys |-> sums[key] + curr_point[key]]

\* The divisor of the rolling mean.
WindowCount(pts) ==
    IF Len(pts) >= SMOOTHING_WINDOW_WIDTH THEN SMOOTHING_WINDOW_WIDTH ELSE Len(pts) + 1

\* The "<key> (Smoothed)" entries of curr_point.
Smoothed(pts, sums, curr_point) ==
    LET next == NextSums(pts, sums, curr_point)
    IN  [k \in {SmoothedKey(key) : key \in SmoothingKeys} |->
            LET key == CHOOSE x \in SmoothingKeys : SmoothedKey(x) = k
            IN  TruncDiv(next[key], WindowCount(pts))]

Init ==
    /\ points = <<>>
    /\ smoothing_sums = [key \in SmoothingKeys |-> 0]
    /\ trkpts = <<>>
    /\ status = "reading"
    /\ exc = "none"

\* One iteration of the trkpt loop on the element (lat, lon, ele, t).
ReadPoint(lat, lon, ele, t) ==
    LET raw == RawPoint(lat, lon, ele, t)
        metrics == Metrics(points, raw)
        curr_point == raw @@ metrics.val
    IN  /\ status = "reading"
        /\ trkpts' = Append(trkpts, raw)
        /\ IF metrics.exc # "none"
           THEN /\ status' = "raised"
                /\ exc' = metrics.exc
                /\ UNCHANGED <<points, smoothing_sums>>
           ELSE /\ smoothing_sums' = NextSums(points, smoothing_sums, curr_point)
                /\ points' = Append(points,
                                    curr_point @@ Smoothed(points, smoothing_sums, curr_point))
                /\ UNCHANGED <<status, exc>>

\* The trkpt loop ends and parseGPX returns points.
Return ==
    /\ status = "reading"
    /\ status' = "returned"
    /\ UNCHANGED <<points, smoothing_sums, trkpts, exc>>

(* ------------------------------- inputs -------------------------------- *)

\* The first trkpt of every modelled track: 45 N, 7 E, 100 ft, time 0.
StartPoint == RawPoint(45 * Scale, 7 * Scale, 100 * Scale, 0)

\* The steps <<dlat, dlon, dele, dt>> from one trkpt to the next that a track
\* read under Spec is made of: dlat and dlon in 1/Scale degrees, dele in feet,
\* dt in tenths of a second.
TrackSteps ==
    { <<0, 0, 100, 10>>,    \* climb on the spot at 6.5 mph
      <<1, 0, 0, 100>>,     \* 36 ft north in 10 s, level
      <<1, 0, 4, 10>>,      \* 36 ft north in 1 s: 24.7 mph, 11 percent
      <<1, -1, -30, 15>>,   \* 51 ft north-west in 1.5 s, -58 percent
      <<0, 0, -50, 10>>,    \* descent on the spot
      <<1, 0, 0, 0>> }      \* duplicate timestamp

\* The steps a track read under SpecPair is made of.
PairSteps ==
    { <<dlat, dlon, dele, dt>> :
        dlat \in {0, 1, 29}, dlon \in {0, -1},
        dele \in {-50, -20, 0, 50},
        dt \in {0, 10, 15, 36000, 864000} }

\* Reads the trkpt that lies the given step after the last one read.
ReadStep(step) ==
    IF Len(trkpts) = 0
    THEN ReadPoint(StartPoint.Latitude, StartPoint.Longitude,
                   StartPoint.Elevation, StartPoint.Timestamp)
    ELSE LET last == Last(trkpts)
         IN  ReadPoint(last.Latitude + step[1], last.Longitude + step[2],
                       last.Elevation + step[3] * Scale, last.Timestamp + step[4])

ReadTrackPoint ==
    /\ Len(trkpts) < MaxPoints
    /\ \E step \in TrackSteps : ReadStep(step)

ReadPairPoint ==
    /\ Len(trkpts) < MaxPairPoints
    /\ \E step \in PairSteps : ReadStep(step)

Next == ReadTrackPoint \/ Return

Spec == Init /\ [][Next]_vars

NextPair == ReadPairPoint \/ Return

SpecPair == Init /\ [][NextPair]_vars

TypeOK ==
    /\ status \in {"reading", "raised", "returned"}
    /\ exc \in {"none", "ValueError", "ZeroDivisionError", "TypeError"}
    /\ Len(points) <= Len(trkpts)

(* ------------------------- property vocabulary ------------------------- *)

RECURSIVE SumOf(_, _, _)
\* points[lo][key] + ... + points[hi][key]
SumOf(key, lo, hi) ==
    IF lo > hi THEN 0 ELSE points[hi][key] + SumOf(key, lo, hi - 1)

\* First index (from 1) of the window that ends at point n.
WindowStart(n) ==
    IF n > SMOOTHING_WINDOW_WIDTH THEN n - SMOOTHING_WINDOW_WIDTH + 1 ELSE 1

\* The mean of a metric over the window that ends at point n, recomputed.
NaiveMean(key, n) ==
    TruncDiv(SumOf(key, WindowStart(n), n), n - WindowStart(n) + 1)

\* The candidates computed when point n (n > 1) was read.
CandidateSpeed(n) == calcSpeed(points[n - 1], points[n]).val

CandidateGrade(n) == calcGrade(points[n - 1], points[n]).val

Increment(n) == calcMiles(points[n - 1], points[n], AllDimensions).val

SpeedRejected(n) ==
    Abs(CandidateSpeed(n) - points[n - 1].Speed) >= MAX_SPEED_STEP_SIZE * Scale

GradeRejected(n) ==
    Abs(CandidateGrade(n) - points[n - 1].Grade) >= MAX_GRADE_STEP_SIZE * Scale

\* The last trkpt read was read after at least one point had been appended,
\* and raised or not; prev is the point it was paired with.
PairRead == Len(trkpts) > 1

PairPrev == trkpts[Len(trkpts) - 1]

PairCurr == trkpts[Len(trkpts)]

(* ------------------------------- claims -------------------------------- *)

\* C1: every "<metric> (Smoothed)" value of every point equals the mean of the
\* metric's stored values over the last min(W, i+1) points, recomputed naively.
C1_RollingMean ==
    \A n \in 1..Len(points) : \A key \in SmoothingKeys :
        points[n][SmoothedKey(key)] = NaiveMean(key, n)

\* C1 witness: the window has slid twice, and the value that left it differs
\* from the one that entered.
C1_Witness ==
    /\ Len(points) = SMOOTHING_WINDOW_WIDTH + 2
    /\ points[2].Speed # 0
    /\ points[2].Speed # Last(points).Speed
    /\ points[2].Grade # Last(points).Grade

\* C2: the first point's Distance is 0 and Distance never decreases from one
\* point to the next.
C2_DistanceMonotone ==
    /\ Len(points) >= 1 => points[1].Distance = 0
    /\ \A n \in 2..Len(points) : points[n].Distance >= points[n - 1].Distance

\* C2 witness: a track whose distance has grown at each of three steps.
C2_Witness ==
    /\ Len(points) >= 4
    /\ \A n \in 2..4 : points[n].Distance > points[n - 1].Distance

C4_Clamp ==
    /\ \A n \in 2..Len(points) :
          LET speed == CandidateSpeed(n)
              grade == CandidateGrade(n)
              prev == points[n - 1]
          IN  /\ points[n].Speed =
                    IF Abs(speed - prev.Speed) < MAX_SPEED_STEP_SIZE * Scale
                    THEN speed ELSE prev.Speed
              /\ points[n].Grade =
                    IF Abs(grade - prev.Grade) < MAX_GRADE_STEP_SIZE * Scale
                    THEN grade ELSE prev.Grade
    /\ \A key \in {"Speed", "Grade"} :
          smoothing_sums[key] = SumOf(key, WindowStart(Len(points)), Len(points))
    /\ ClampSpeed(10000 * Scale, 10 * Scale) = 10 * Scale

\* C4 witness: one step rejected the speed and accepted a new grade, another
\* accepted a new speed and rejected the grade.
C4_Witness ==
    /\ \E n \in 2..Len(points) :
          SpeedRejected(n) /\ ~GradeRejected(n) /\ points[n].Grade # points[n - 1].Grade
    /\ \E n \in 2..Len(points) :
          ~SpeedRejected(n) /\ GradeRejected(n) /\ points[n].Speed # points[n - 1].Speed

\* C5 as stated: an increment of at least 0.1 mile is replaced by the previous
\* Speed times the elapsed time; a smaller one is added as it is.
C5_Original ==
    \A n \in 2..Len(points) :
        points[n].Distance - points[n - 1].Distance =
            IF Increment(n) >= Scale \div 10
            THEN TruncDiv(points[n - 1].Speed
                            * (points[n].Timestamp - points[n - 1].Timestamp), 36000)
            ELSE Increment(n)

\* C6: a trkpt with the timestamp of the last appended point raises (division
\* by zero, unless the square root failed first) and is not appended, the sums
\* stay as they were, and no two consecutive stored points share a timestamp.
C6_ZeroDurationRaises ==
    [][ /\ (/\ status = "reading"
            /\ Len(points) > 0
            /\ Len(trkpts') = Len(trkpts) + 1
            /\ Last(trkpts').Timestamp = Last(points).Timestamp)
           => /\ status' = "raised"
              /\ exc' \in {"ZeroDivisionError", "ValueError"}
              /\ calcMiles(Last(points), Last(trkpts'), AllDimensions).exc = "none"
                    => exc' = "ZeroDivisionError"
              /\ points' = points
              /\ smoothing_sums' = smoothing_sums
        /\ \A n \in 2..Len(points') :
              points'[n].Timestamp # points'[n - 1].Timestamp ]_vars

\* C6 witness: a trkpt at a new position with the previous timestamp was read
\* and the division by zero raised.
C6_Witness ==
    /\ PairRead
    /\ status = "raised" /\ exc = "ZeroDivisionError"
    /\ PairCurr.Timestamp = PairPrev.Timestamp
    /\ PairCurr.Latitude # PairPrev.Latitude
    /\ Len(points) = Len(trkpts) - 1

\* C7 as stated: a trkpt at the latitude and longitude of the previous one, at
\* another elevation and another time, is processed without failure and its
\* candidate grade is 0.
C7_Original ==
    (/\ PairRead
     /\ PairCurr.Latitude = PairPrev.Latitude
     /\ PairCurr.Longitude = PairPrev.Longitude
     /\ PairCurr.Elevation # PairPrev.Elevation
     /\ PairCurr.Timestamp # PairPrev.Timestamp)
    => /\ status # "raised"
       /\ calcGrade(PairPrev, PairCurr) = Ret(0)

\* C8 as stated: a trkpt later than the previous one never raises.
C8_Original ==
    (PairRead /\ PairCurr.Timestamp > PairPrev.Timestamp) => status # "raised"

\* C9 as stated: the candidate speed is the distance over the full elapsed
\* time, tenths of a second included at their value.
C9_Original ==
    \A n \in 2..Len(points) :
        CandidateSpeed(n) =
            TruncDiv(Increment(n) * 36000, points[n].Timestamp - points[n - 1].Timestamp)

RECURSIVE LockedIn(_, _)
\* From point j on, as long as every candidate since point k is at least the
\* speed step away from the Speed of point k, the stored Speed is that of k.
LockedIn(k, j) ==
    \/ j > Len(points)
    \/ Abs(CandidateSpeed(j) - points[k].Speed) < MAX_SPEED_STEP_SIZE * Scale
    \/ points[j].Speed = points[k].Speed /\ LockedIn(k, j + 1)

\* C10: stored Speed and Grade of consecutive points differ by less than their
\* step sizes, and while every candidate after point k is at least the speed
\* step away from the Speed of point k, the stored Speed stays that of point k.
C10_StepBoundLockIn ==
    /\ \A n \in 2..Len(points) :
          /\ Abs(points[n].Speed - points[n - 1].Speed) < MAX_SPEED_STEP_SIZE * Scale
          /\ Abs(points[n].Grade - points[n - 1].Grade) < MAX_GRADE_STEP_SIZE * Scale
    /\ \A k \in 1..Len(points) : LockedIn(k, k + 1)

\* C10 witness: a track that moves at 10 mph or more at each of four steps
\* after the first point and whose stored Speed is still 0.
C10_Witness ==
    /\ Len(points) >= 5
    /\ \A n \in 2..5 :
          /\ CandidateSpeed(n) >= MAX_SPEED_STEP_SIZE * Scale
          /\ points[n].Speed = 0

====
